---- MODULE Spec2Model ----
(***************************************************************************)
(* Galaxy data managers of galaxytrakr-tools:                              *)
(*   AmrFinderPlusDataManager (data_manager_amrfinderplus.py)              *)
(*   MLSTDataManager          (data_manager_mlst.py)                       *)
(* Each run is one process executing main(): construct the manager, then   *)
(* run().  Runs share the filesystem.  Strings are sequences of tokens, so *)
(* that formatting, stripping and substring tests are computed.            *)
(***************************************************************************)
EXTENDS Integers, Sequences, FiniteSets, TLC

\* ------------------------------------------------------------------ bounds
MaxRuns == 2
NPaths == 2
NDirs == 2
NCwds == 2
MaxPartial == 2
MaxClock == 2
MaxLines == 2
\* strftime("%Y%m%d_%H%M%S") keeps whole seconds: the clock ticks this often in one
TicksPerSecond == 2

Runs == 1..MaxRuns
JsonPaths == 1..NPaths
Dirs == 1..NDirs
Cwds == 1..NCwds

\* ------------------------------------------------------- program constants
\* self.output_dir = None / self.extra_files_path = None
NoDir == 0
\* self.version = None / self.dbformat = None
None == <<"<None>">>
unknown == <<"unknown">>
AmrTable == "amrfinderplus_versioned_database"
MlstTable == "mlst"
AmrDbName == <<"amrfinderplus-db">>
MlstPath == <<"mlst-db">>

Whitespace == {" ", "\n"}
NotALocus == "not a locus"

\* ------------------------------------------------------- string helpers
\* str(x) inside an f-string: None formats as the text None
Str(s) == IF s = None THEN <<"None">> ELSE s

\* the in operator on strings: a token of the string is the substring
Contains(s, tok) == \E i \in 1..Len(s) : s[i] = tok

\* str.startswith on one character
StartsWith(s, tok) == Len(s) > 0 /\ s[1] = tok

RECURSIVE LStrip(_)
LStrip(s) == IF s # <<>> /\ Head(s) \in Whitespace THEN LStrip(Tail(s)) ELSE s

RECURSIVE RStrip(_)
RStrip(s) ==
  IF s # <<>> /\ s[Len(s)] \in Whitespace THEN RStrip(SubSeq(s, 1, Len(s) - 1)) ELSE s

\* faulty variant of Strip: only leading whitespace is removed
StripLeading(s) == LStrip(s)

\* str.strip()
Strip(s) == RStrip(LStrip(s))

\* f.readline(): the first line of the file, or the empty string
Readline(file) == IF file = <<>> THEN <<>> ELSE Head(file)

Perms(S) == {p \in [1..Cardinality(S) -> S] : \A a \in S : \E i \in DOMAIN p : p[i] = a}

\* ------------------------------------------------------------ file system
\* A directory tree is a function from file names to files (sequences of lines).
EmptyTree == [n \in {} |-> <<>>]

AbsentDir == [exists |-> FALSE, tree |-> EmptyTree]
EmptyDir == [exists |-> TRUE, tree |-> EmptyTree]
DirOf(tree) == [exists |-> TRUE, tree |-> tree]

\* what amrfinder_update may leave under <output_dir>/latest
LatestA ==
  ("version.txt" :> << <<"3.12", "\n">> >>
   @@ "database_format_version.txt" :> << <<"2024-01-01.1", "\n">> >>
   @@ "AMR.LIB" :> << <<"hmmA">> >>)
LatestB ==
  ("version.txt" :> << <<" ", "4.0", " ", "\n">>, <<"extra", "\n">> >>
   @@ "database_format_version.txt" :> << <<"2024-01-01.1", "\n">> >>
   @@ "AMRProt" :> << <<"protB">> >>)
LatestNoFormat ==
  ("version.txt" :> << <<"3.12", "\n">> >>
   @@ "AMR.LIB" :> << <<"hmmA">> >>)
LatestNoVersion ==
  ("database_format_version.txt" :> << <<"2024-01-01.1", "\n">> >>
   @@ "AMR.LIB" :> << <<"hmmA">> >>)
AmrLatest == {LatestA, LatestB, LatestNoFormat, LatestNoVersion}

\* JSON documents
InputJson(d) == [kind |-> "input", efp |-> d]
MalformedJson == [kind |-> "malformed"]
EmptyFile == [kind |-> "empty"]

\* a text file: absent, or its lines
NoFile == [exists |-> FALSE, lines |-> <<>>]
TextFile(lines) == [exists |-> TRUE, lines |-> lines]
CatalogJson(table, rows) == [kind |-> "catalog", table |-> table, rows |-> rows]

VARIABLES
  pipe,              \* which data manager the runs execute
  clock,             \* wall clock, in ticks
  pc,                \* position of each run in main()/run()
  json_path, extra_files_path, output_dir, version, dbformat, timestamp,
  pending,           \* the exception in flight in each run
  exit_code, nwrites, published,
  jsonFile,          \* the job JSON files, by path
  tmpDir,            \* <extra_files_path>/tmp_download, by directory
  finalDir,          \* <extra_files_path>/amrfinderplus-db, by directory
  cwd,               \* the working directory of each run's process
  srcPubmlst,        \* <cwd>/pubmlst, by working directory
  dstPubmlst,        \* <output_dir>/pubmlst, by directory
  blastFile,         \* <output_dir>/blast/mlst.fa, by directory: its lines
  blastDb,           \* what makeblastdb indexed, by directory
  mapFile,           \* <output_dir>/scheme_species_map.tab, by directory
  failure,           \* history: the stage of each run that raised, and what
  born,              \* history: the clock when each run's manager was constructed
  merged,            \* history: the pubmlst tree each run merged
  wrote,             \* history: mlst.fa as each run's merge left it
  copied,            \* history: how far each run's copy_database got
  fetched,           \* history: how each run's fetch of the mapping file ended
  downloaded         \* history: what each run's acquisition left in its working area

objVars == <<json_path, extra_files_path, output_dir, version, dbformat, timestamp, cwd>>
procVars == <<pending, exit_code, nwrites, published>>
amrFs == <<tmpDir, finalDir>>
mlstFs == <<srcPubmlst, dstPubmlst, blastFile, blastDb, mapFile>>
fsVars == <<jsonFile, amrFs, mlstFs>>
histVars == <<born, merged, wrote, copied, fetched, downloaded>>
vars == <<pipe, clock, pc, objVars, procVars, fsVars, failure, histVars>>

Terminal == {"done", "crashed"}
NoDoc == [kind |-> "none"]
NoFailure == [stage |-> "none", exc |-> "none"]

Init ==
  /\ pipe \in {"amr", "mlst"}
  /\ clock = 0
  /\ pc = [r \in Runs |-> "new"]
  /\ json_path = [r \in Runs |-> 0]
  /\ extra_files_path = [r \in Runs |-> NoDir]
  /\ output_dir = [r \in Runs |-> NoDir]
  /\ version = [r \in Runs |-> None]
  /\ dbformat = [r \in Runs |-> None]
  /\ timestamp = [r \in Runs |-> <<>>]
  /\ pending = [r \in Runs |-> "none"]
  /\ exit_code = [r \in Runs |-> -1]
  /\ nwrites = [r \in Runs |-> 0]
  /\ published = [r \in Runs |-> NoDoc]
  /\ jsonFile \in [JsonPaths -> {InputJson(d) : d \in Dirs} \cup {MalformedJson}]
  /\ tmpDir = [d \in Dirs |-> AbsentDir]
  /\ finalDir = [d \in Dirs |-> AbsentDir]
  /\ cwd = [r \in Runs |-> 0]
  /\ srcPubmlst = [c \in Cwds |-> AbsentDir]
  /\ dstPubmlst = [d \in Dirs |-> AbsentDir]
  /\ blastFile = [d \in Dirs |-> NoFile]
  /\ blastDb = [d \in Dirs |-> NoFile]
  /\ mapFile = [d \in Dirs |-> NoFile]
  /\ failure = [r \in Runs |-> NoFailure]
  /\ born = [r \in Runs |-> 0]
  /\ merged = [r \in Runs |-> AbsentDir]
  /\ wrote = [r \in Runs |-> NoFile]
  /\ copied = [r \in Runs |-> "no"]
  /\ fetched = [r \in Runs |-> "none"]
  /\ downloaded = [r \in Runs |-> AbsentDir]

\* ---------------------------------------------------------------- AMRFinderPlus
\* main(): mgr = AmrFinderPlusDataManager(args.data_manager_json)
Amr_init(r) ==
  /\ pipe = "amr" /\ pc[r] = "new"
  /\ \E p \in JsonPaths : json_path' = [json_path EXCEPT ![r] = p]
  /\ extra_files_path' = [extra_files_path EXCEPT ![r] = NoDir]
  /\ output_dir' = [output_dir EXCEPT ![r] = NoDir]
  /\ version' = [version EXCEPT ![r] = None]
  /\ dbformat' = [dbformat EXCEPT ![r] = None]
  /\ pc' = [pc EXCEPT ![r] = "read_input_json"]
  /\ born' = [born EXCEPT ![r] = clock]
  /\ UNCHANGED <<pipe, clock, timestamp, cwd, procVars, fsVars, failure, merged, wrote,
                 copied, fetched, downloaded>>

\* an exception raised inside the try block of run()
Raise(r, exc) ==
  /\ pc' = [pc EXCEPT ![r] = "except"]
  /\ failure' = [failure EXCEPT ![r] = [stage |-> pc[r], exc |-> exc]]

Amr_read_input_json(r) ==
  /\ pipe = "amr" /\ pc[r] = "read_input_json"
  /\ LET doc == jsonFile[json_path[r]] IN
     IF doc.kind = "input"
     THEN /\ extra_files_path' = [extra_files_path EXCEPT ![r] = doc.efp]
          /\ output_dir' = [output_dir EXCEPT ![r] = doc.efp]
          /\ tmpDir' = [tmpDir EXCEPT ![doc.efp] =
                          IF @.exists THEN @ ELSE EmptyDir]
          /\ pc' = [pc EXCEPT ![r] = "run_amrfinder_update"]
          /\ UNCHANGED failure
     ELSE /\ Raise(r, "JSONDecodeError")
          /\ UNCHANGED <<extra_files_path, output_dir, tmpDir>>
  /\ UNCHANGED <<pipe, clock, json_path, version, dbformat, timestamp, procVars,
                 jsonFile, finalDir, cwd, mlstFs, histVars>>

\* faulty variant of run_amrfinder_update: the copy is the stage after acquisition
run_amrfinder_update_then_copy(r) ==
  /\ pipe = "amr" /\ pc[r] = "run_amrfinder_update"
  /\ \/ \E latest \in AmrLatest :
          /\ tmpDir' = [tmpDir EXCEPT ![output_dir[r]] = DirOf(latest)]
          /\ downloaded' = [downloaded EXCEPT ![r] = DirOf(latest)]
          /\ pc' = [pc EXCEPT ![r] = "copy_database"]
          /\ UNCHANGED failure
     \/ /\ UNCHANGED <<tmpDir, downloaded>>
        /\ Raise(r, "CalledProcessError")
  /\ UNCHANGED <<pipe, clock, objVars, procVars, jsonFile, finalDir, mlstFs,
                 born, merged, wrote, copied, fetched>>

\* subprocess.run(["amrfinder_update", "-d", output_dir], check=True)
run_amrfinder_update(r) ==
  /\ pipe = "amr" /\ pc[r] = "run_amrfinder_update"
  /\ \/ \E latest \in AmrLatest :
          /\ tmpDir' = [tmpDir EXCEPT ![output_dir[r]] = DirOf(latest)]
          /\ downloaded' = [downloaded EXCEPT ![r] = DirOf(latest)]
          /\ pc' = [pc EXCEPT ![r] = "read_versions"]
          /\ UNCHANGED failure
     \/ /\ UNCHANGED <<tmpDir, downloaded>>
        /\ Raise(r, "CalledProcessError")
  /\ UNCHANGED <<pipe, clock, objVars, procVars, jsonFile, finalDir, mlstFs,
                 born, merged, wrote, copied, fetched>>

\* the two open()/readline().strip() of read_versions
ReadVersion(tree) == Strip(Readline(tree["version.txt"]))
ReadDbformat(tree) == Strip(Readline(tree["database_format_version.txt"]))

\* faulty variant of read_versions: a missing format file gives the placeholder
\* for dbformat alone and the run goes on
read_versions_mixed(r) ==
  /\ pipe = "amr" /\ pc[r] = "read_versions"
  /\ LET dir == tmpDir[output_dir[r]] IN
     IF dir.exists /\ "version.txt" \in DOMAIN dir.tree
     THEN /\ version' = [version EXCEPT ![r] = ReadVersion(dir.tree)]
          /\ dbformat' = [dbformat EXCEPT ![r] =
                            IF "database_format_version.txt" \in DOMAIN dir.tree
                            THEN ReadDbformat(dir.tree) ELSE unknown]
          /\ pc' = [pc EXCEPT ![r] = "copy_database"]
          /\ UNCHANGED failure
     ELSE /\ UNCHANGED <<version, dbformat>>
          /\ Raise(r, "FileNotFoundError")
  /\ UNCHANGED <<pipe, clock, json_path, extra_files_path, output_dir, timestamp,
                 cwd, procVars, fsVars, histVars>>

read_versions(r) ==
  /\ pipe = "amr" /\ pc[r] = "read_versions"
  /\ LET dir == tmpDir[output_dir[r]] IN
     IF dir.exists /\ "version.txt" \in DOMAIN dir.tree
     THEN /\ version' = [version EXCEPT ![r] = ReadVersion(dir.tree)]
          /\ IF "database_format_version.txt" \in DOMAIN dir.tree
             THEN /\ dbformat' = [dbformat EXCEPT ![r] = ReadDbformat(dir.tree)]
                  /\ pc' = [pc EXCEPT ![r] = "copy_database"]
                  /\ UNCHANGED failure
             ELSE /\ UNCHANGED dbformat
                  /\ Raise(r, "FileNotFoundError")
     ELSE /\ UNCHANGED <<version, dbformat>>
          /\ Raise(r, "FileNotFoundError")
  /\ UNCHANGED <<pipe, clock, json_path, extra_files_path, output_dir, timestamp,
                 cwd, procVars, fsVars, histVars>>

\* shutil.copytree(src, dst, dirs_exist_ok=True), the files of S copied
CopyTree(src, dst, S) ==
  DirOf([n \in (S \cup DOMAIN dst.tree) |-> IF n \in S THEN src[n] ELSE dst.tree[n]])

copy_database(r) ==
  /\ pipe = "amr" /\ pc[r] = "copy_database"
  /\ LET dir == tmpDir[output_dir[r]]
         d == extra_files_path[r] IN
     \/ /\ dir.exists
        /\ finalDir' = [finalDir EXCEPT ![d] = CopyTree(dir.tree, @, DOMAIN dir.tree)]
        /\ copied' = [copied EXCEPT ![r] = "full"]
        /\ pc' = [pc EXCEPT ![r] = "cleanup"]
        /\ UNCHANGED failure
     \/ \* the copy stops part-way (shutil.Error, OSError)
        /\ \E S \in SUBSET (DOMAIN dir.tree) :
             /\ S # DOMAIN dir.tree /\ Cardinality(S) < MaxPartial
             /\ finalDir' = [finalDir EXCEPT ![d] = CopyTree(dir.tree, @, S)]
        /\ copied' = [copied EXCEPT ![r] = "partial"]
        /\ Raise(r, "shutil.Error")
  /\ UNCHANGED <<pipe, clock, objVars, procVars, jsonFile, tmpDir, mlstFs,
                 born, merged, wrote, fetched, downloaded>>

\* faulty variant of Amr_except: the fields keep what the failed try block set
Amr_except_keep(r) ==
  /\ pipe = "amr" /\ pc[r] = "except"
  /\ pc' = [pc EXCEPT ![r] = "cleanup"]
  /\ UNCHANGED <<pipe, clock, objVars, procVars, fsVars, failure, histVars>>

\* except Exception as e: the placeholder entry
Amr_except(r) ==
  /\ pipe = "amr" /\ pc[r] = "except"
  /\ version' = [version EXCEPT ![r] = unknown]
  /\ dbformat' = [dbformat EXCEPT ![r] = unknown]
  /\ pc' = [pc EXCEPT ![r] = "cleanup"]
  /\ UNCHANGED <<pipe, clock, json_path, extra_files_path, output_dir, timestamp,
                 cwd, procVars, fsVars, failure, histVars>>

\* shutil.rmtree(None, ignore_errors=True): os.lstat(None) raises TypeError, which
\* the interpreter's rmtree hands to the ignoring handler or lets escape,
\* depending on the interpreter version and platform.
RmtreeNoneOutcomes == {"swallowed", "TypeError"}

cleanup(r) ==
  /\ pipe = "amr" /\ pc[r] = "cleanup"
  /\ IF output_dir[r] = NoDir
     THEN /\ UNCHANGED tmpDir
          /\ \E o \in RmtreeNoneOutcomes :
               IF o = "swallowed"
               THEN /\ pc' = [pc EXCEPT ![r] = "write_output_json"]
                    /\ UNCHANGED <<pending, exit_code>>
               ELSE \* the TypeError leaves the finally block and main()
                    /\ pc' = [pc EXCEPT ![r] = "done"]
                    /\ pending' = [pending EXCEPT ![r] = "TypeError"]
                    /\ exit_code' = [exit_code EXCEPT ![r] = 1]
     ELSE /\ tmpDir' = [tmpDir EXCEPT ![output_dir[r]] = AbsentDir]
          /\ pc' = [pc EXCEPT ![r] = "write_output_json"]
          /\ UNCHANGED <<pending, exit_code>>
  /\ UNCHANGED <<pipe, clock, objVars, nwrites, published, jsonFile, finalDir, mlstFs,
                 failure, histVars>>

\* the entry of AmrFinderPlusDataManager.write_output_json
AmrValue(v, f) == <<"amrfinderplus_">> \o Str(v) \o <<"_">> \o Str(f)
AmrEntry(v, f) ==
  [value |-> AmrValue(v, f),
   name |-> Str(v) \o <<" (">> \o Str(f) \o <<")">>,
   db_version |-> f,
   path |-> AmrDbName]

\* ------------------------------------------------------------------- PubMLST
\* A pubmlst tree maps an entry name to [isdir, tree]; a scheme directory's tree
\* maps a file name <<stem, extension>> to its lines.
Scheme(tree) == [isdir |-> TRUE, tree |-> tree]
PlainFile == [isdir |-> FALSE, tree |-> EmptyTree]

\* what mlst-download_pub_mlst may leave under <cwd>/pubmlst
BundleA ==
  ("ecoli" :> Scheme(
       <<"adk", ".tfa">> :> << <<">", "adk_1", "\n">>, <<"ACGT", "\n">>,
                               <<">", "adk_2", "\n">>,
                               <<"NNNN", " ", "not a locus", "\n">>,
                               <<"TTTT", "\n">> >>
       @@ <<"ecoli", ".txt">> :> << <<"ST", "adk", "\n">> >>)
   @@ "saureus" :> Scheme(
       <<"arcC", ".tfa">> :> << <<">", "arcC_1", " ", "not a locus", "\n">>,
                                <<"GGGG", "\n">> >>)
   @@ "README" :> PlainFile)
BundleB ==
  ("ecoli" :> Scheme(
       <<"adk", ".tfa">> :> << <<">", "adk_1", "\n">>, <<"ACGT", "\n">> >>))
MlstBundles == {BundleA, BundleB}

MapTab == << <<"ecoli", "\t", "Escherichia", "\n">> >>

\* main(): mgr = MLSTDataManager(args.data_manager_json); the process runs in
\* some working directory, and time has passed since the clock was last read
\* faulty variant of Timestamp: the sub-second part of the clock is kept
TimestampTicks(t) == <<ToString(t)>>

Timestamp(t) == <<ToString(t \div TicksPerSecond)>>
DbName(ts) == <<"mlst_database_">> \o ts

Mlst_init(r) ==
  /\ pipe = "mlst" /\ pc[r] = "new"
  /\ \E p \in JsonPaths : json_path' = [json_path EXCEPT ![r] = p]
  /\ \E c \in Cwds : cwd' = [cwd EXCEPT ![r] = c]
  /\ \E t \in clock..MaxClock :
       /\ clock' = t
       /\ born' = [born EXCEPT ![r] = t]
       /\ timestamp' = [timestamp EXCEPT ![r] = Timestamp(t)]
  /\ extra_files_path' = [extra_files_path EXCEPT ![r] = NoDir]
  /\ output_dir' = [output_dir EXCEPT ![r] = NoDir]
  /\ pc' = [pc EXCEPT ![r] = "read_input_json"]
  /\ UNCHANGED <<pipe, version, dbformat, procVars, fsVars, failure, merged, wrote,
                 copied, fetched, downloaded>>

Mlst_read_input_json(r) ==
  /\ pipe = "mlst" /\ pc[r] = "read_input_json"
  /\ LET doc == jsonFile[json_path[r]] IN
     IF doc.kind = "input"
     THEN /\ extra_files_path' = [extra_files_path EXCEPT ![r] = doc.efp]
          /\ output_dir' = [output_dir EXCEPT ![r] = doc.efp]
          /\ pc' = [pc EXCEPT ![r] = "download_pubmlst_databases"]
          /\ UNCHANGED failure
     ELSE /\ Raise(r, "JSONDecodeError")
          /\ UNCHANGED <<extra_files_path, output_dir>>
  /\ UNCHANGED <<pipe, clock, json_path, version, dbformat, timestamp, cwd,
                 procVars, fsVars, histVars>>

\* the tree restricted to the entries of S
Restrict(tree, S) == [n \in S |-> tree[n]]

\* subprocess.run(["mlst-download_pub_mlst", "-d", "pubmlst"], check=True)
download_pubmlst_databases(r) ==
  /\ pipe = "mlst" /\ pc[r] = "download_pubmlst_databases"
  /\ \/ \* the downloader ran and returned 0
        \E b \in MlstBundles :
          /\ srcPubmlst' = [srcPubmlst EXCEPT ![cwd[r]] = DirOf(b)]
          /\ downloaded' = [downloaded EXCEPT ![r] = DirOf(b)]
          /\ pc' = [pc EXCEPT ![r] = "make_blast_database"]
          /\ UNCHANGED <<pending, failure>>
     \/ \* it returned nonzero, part-way: CalledProcessError, then sys.exit(1)
        \E b \in MlstBundles : \E S \in SUBSET (DOMAIN b) :
          /\ Cardinality(S) < MaxPartial
          /\ srcPubmlst' = [srcPubmlst EXCEPT ![cwd[r]] = DirOf(Restrict(b, S))]
          /\ downloaded' = [downloaded EXCEPT ![r] = DirOf(Restrict(b, S))]
          /\ pending' = [pending EXCEPT ![r] = "SystemExit"]
          /\ failure' = [failure EXCEPT ![r] =
                           [stage |-> pc[r], exc |-> "CalledProcessError"]]
          /\ pc' = [pc EXCEPT ![r] = "write_output_json"]
     \/ \* it could not be started: FileNotFoundError, an Exception
        /\ Raise(r, "FileNotFoundError")
        /\ UNCHANGED <<srcPubmlst, pending, downloaded>>
  /\ UNCHANGED <<pipe, clock, objVars, exit_code, nwrites, published, jsonFile,
                 amrFs, dstPubmlst, blastFile, blastDb, mapFile,
                 born, merged, wrote, copied, fetched>>

\* f.endswith(".tfa")
EndsWithTfa(f) == f[Len(f)] = ".tfa"

\* faulty variant of WriteLine: the whole identifier line follows the prefix
WriteLineKeepSentinel(scheme, line) ==
  IF ~Contains(line, NotALocus)
  THEN IF StartsWith(line, ">")
       THEN << <<">", scheme, ".">> \o line >>
       ELSE <<line>>
  ELSE <<>>

\* one line of a .tfa file, as written to the combined file: nothing, the
\* identifier line prefixed with the scheme, or the line itself
WriteLine(scheme, line) ==
  IF ~Contains(line, NotALocus)
  THEN IF StartsWith(line, ">")
       THEN << <<">", scheme, ".">> \o Tail(line) >>
       ELSE <<line>>
  ELSE <<>>

RECURSIVE MergeFile(_, _)
MergeFile(scheme, lines) ==
  IF lines = <<>> THEN <<>>
  ELSE WriteLine(scheme, Head(lines)) \o MergeFile(scheme, Tail(lines))

\* os.listdir(dir) in the order ord gives the names
Listdir(tree, ord) == SelectSeq(ord, LAMBDA n : n \in DOMAIN tree)

RECURSIVE MergeScheme(_, _, _)
MergeScheme(scheme, tree, files) ==
  IF files = <<>> THEN <<>>
  ELSE (IF EndsWithTfa(Head(files)) THEN MergeFile(scheme, tree[Head(files)]) ELSE <<>>)
       \o MergeScheme(scheme, tree, Tail(files))

RECURSIVE MergeAll(_, _, _)
MergeAll(tree, schemes, ford) ==
  IF schemes = <<>> THEN <<>>
  ELSE LET s == Head(schemes) IN
       (IF tree[s].isdir
        THEN MergeScheme(s, tree[s].tree, Listdir(tree[s].tree, ford))
        ELSE <<>>)
       \o MergeAll(tree, Tail(schemes), ford)

\* the orders in which os.listdir may give the entries of a pubmlst tree and the
\* files of a scheme directory: any order of the entries, and both orders of
\* any two files
EntryNames == UNION {DOMAIN b : b \in MlstBundles}
EntryOrders == Perms(EntryNames)
FileOrders == {<<<<"adk", ".tfa">>, <<"arcC", ".tfa">>, <<"ecoli", ".txt">>>>,
               <<<<"ecoli", ".txt">>, <<"arcC", ".tfa">>, <<"adk", ".tfa">>>>}

MakeBlastFailures == {"none", "move", "merge", "makeblastdb"}

make_blast_database(r) ==
  /\ pipe = "mlst" /\ pc[r] = "make_blast_database"
  /\ LET c == cwd[r]
         d == output_dir[r]
         src == srcPubmlst[c]
     IN \E fail \in MakeBlastFailures : \E sord \in EntryOrders, ford \in FileOrders :
          LET out == MergeAll(src.tree, Listdir(src.tree, sord), ford) IN
          IF fail = "move" \/ ~src.exists
          THEN \* rmtree(dst_dir) done, shutil.move raises
               /\ dstPubmlst' = [dstPubmlst EXCEPT ![d] = AbsentDir]
               /\ UNCHANGED <<srcPubmlst, blastFile, blastDb, merged, wrote>>
               /\ Raise(r, "shutil.Error")
          ELSE /\ dstPubmlst' = [dstPubmlst EXCEPT ![d] = src]
               /\ srcPubmlst' = [srcPubmlst EXCEPT ![c] = AbsentDir]
               /\ merged' = [merged EXCEPT ![r] = src]
               /\ IF fail = "merge"
                  THEN \* a read or write error part-way through the loops
                       /\ \E k \in 0..(Len(out) - 1) :
                            /\ k < MaxPartial
                            /\ blastFile' = [blastFile EXCEPT ![d] =
                                              TextFile(@.lines \o SubSeq(out, 1, k))]
                       /\ UNCHANGED blastDb
                       /\ Raise(r, "OSError")
                  ELSE /\ blastFile' = [blastFile EXCEPT ![d] = TextFile(@.lines \o out)]
                       /\ IF fail = "makeblastdb"
                          THEN /\ UNCHANGED blastDb
                               /\ Raise(r, "CalledProcessError")
                          ELSE /\ blastDb' = [blastDb EXCEPT ![d] = blastFile'[d]]
                               /\ pc' = [pc EXCEPT ![r] = "download_scheme_species_map"]
                               /\ UNCHANGED failure
               /\ wrote' = [wrote EXCEPT ![r] = blastFile'[d]]
  /\ UNCHANGED <<pipe, clock, objVars, procVars, jsonFile, amrFs, mapFile,
                 born, copied, fetched, downloaded>>

UrlopenOutcomes == {"ok", "urlopen fails", "read fails"}

\* faulty variant of download_scheme_species_map: no try/except around the fetch
download_scheme_species_map_raising(r) ==
  /\ pipe = "mlst" /\ pc[r] = "download_scheme_species_map"
  /\ \E o \in UrlopenOutcomes :
       /\ mapFile' = [mapFile EXCEPT ![output_dir[r]] =
                        IF o = "ok" THEN TextFile(MapTab)
                        ELSE IF o = "read fails" THEN TextFile(<<>>)
                        ELSE @]
       /\ fetched' = [fetched EXCEPT ![r] = o]
       /\ IF o = "ok"
          THEN /\ pc' = [pc EXCEPT ![r] = "write_output_json"]
               /\ UNCHANGED failure
          ELSE Raise(r, "URLError")
  /\ UNCHANGED <<pipe, clock, objVars, procVars, jsonFile, amrFs,
                 srcPubmlst, dstPubmlst, blastFile, blastDb,
                 born, merged, wrote, copied, downloaded>>


download_scheme_species_map(r) ==
  /\ pipe = "mlst" /\ pc[r] = "download_scheme_species_map"
  /\ \E o \in UrlopenOutcomes :
       /\ mapFile' = [mapFile EXCEPT ![output_dir[r]] =
                        IF o = "ok" THEN TextFile(MapTab)
                        ELSE IF o = "read fails" THEN TextFile(<<>>)
                        ELSE @]
       /\ fetched' = [fetched EXCEPT ![r] = o]
  /\ pc' = [pc EXCEPT ![r] = "write_output_json"]
  /\ UNCHANGED <<pipe, clock, objVars, procVars, jsonFile, amrFs,
                 srcPubmlst, dstPubmlst, blastFile, blastDb, failure,
                 born, merged, wrote, copied, downloaded>>

\* except Exception as e: print only
Mlst_except(r) ==
  /\ pipe = "mlst" /\ pc[r] = "except"
  /\ pc' = [pc EXCEPT ![r] = "write_output_json"]
  /\ UNCHANGED <<pipe, clock, objVars, procVars, fsVars, failure, histVars>>

\* the entry of MLSTDataManager.write_output_json
MlstEntry(ts) == [value |-> DbName(ts), name |-> DbName(ts), path |-> MlstPath]

\* ------------------------------------------------------------ the catalog write
Entry(r) == IF pipe = "amr" THEN AmrEntry(version[r], dbformat[r])
            ELSE MlstEntry(timestamp[r])
Table == IF pipe = "amr" THEN AmrTable ELSE MlstTable

\* with open(self.json_path, "w") as fh: the file is truncated
write_open(r) ==
  /\ pc[r] = "write_output_json"
  /\ jsonFile' = [jsonFile EXCEPT ![json_path[r]] = EmptyFile]
  /\ pc' = [pc EXCEPT ![r] = "write_dump"]
  /\ UNCHANGED <<pipe, clock, objVars, procVars, amrFs, mlstFs, failure, histVars>>

\* faulty variant of ExitCode: the pending SystemExit is lost, the exit status is 0
ExitCodeAlwaysZero(p) == 0

\* the exit status of the process once run() and main() return or unwind
ExitCode(p) == IF p = "none" THEN 0 ELSE 1

\* json.dump(entry, fh); fh.flush(); os.fsync(fh.fileno()); then run() ends
write_dump(r) ==
  /\ pc[r] = "write_dump"
  /\ jsonFile' = [jsonFile EXCEPT ![json_path[r]] = CatalogJson(Table, <<Entry(r)>>)]
  /\ nwrites' = [nwrites EXCEPT ![r] = @ + 1]
  /\ published' = [published EXCEPT ![r] = CatalogJson(Table, <<Entry(r)>>)]
  /\ exit_code' = [exit_code EXCEPT ![r] = ExitCode(pending[r])]
  /\ pc' = [pc EXCEPT ![r] = "done"]
  /\ UNCHANGED <<pipe, clock, objVars, pending, amrFs, mlstFs, failure, histVars>>

\* the host goes down at any point of a run: nothing runs afterwards
Crash(r) ==
  /\ pc[r] \notin Terminal \cup {"new"}
  /\ pc' = [pc EXCEPT ![r] = "crashed"]
  /\ UNCHANGED <<pipe, clock, objVars, procVars, fsVars, failure, histVars>>

\* runs are started one after another: Galaxy starts a data manager job when asked
Turn(r) == \A q \in 1..(r - 1) : pc[q] = "done"

Next ==
  \/ \E r \in Runs : Turn(r) /\ Amr_init(r)
  \/ \E r \in Runs : Turn(r) /\ Amr_read_input_json(r)
  \/ \E r \in Runs : Turn(r) /\ run_amrfinder_update(r)
  \/ \E r \in Runs : Turn(r) /\ read_versions(r)
  \/ \E r \in Runs : Turn(r) /\ copy_database(r)
  \/ \E r \in Runs : Turn(r) /\ Amr_except(r)
  \/ \E r \in Runs : Turn(r) /\ cleanup(r)
  \/ \E r \in Runs : Turn(r) /\ Mlst_init(r)
  \/ \E r \in Runs : Turn(r) /\ Mlst_read_input_json(r)
  \/ \E r \in Runs : Turn(r) /\ download_pubmlst_databases(r)
  \/ \E r \in Runs : Turn(r) /\ make_blast_database(r)
  \/ \E r \in Runs : Turn(r) /\ download_scheme_species_map(r)
  \/ \E r \in Runs : Turn(r) /\ Mlst_except(r)
  \/ \E r \in Runs : Turn(r) /\ write_open(r)
  \/ \E r \in Runs : Turn(r) /\ write_dump(r)
  \/ \E r \in Runs : Turn(r) /\ Crash(r)

Spec == Init /\ [][Next]_vars

Positions ==
  {"new", "read_input_json", "run_amrfinder_update", "read_versions", "copy_database",
   "download_pubmlst_databases", "make_blast_database", "download_scheme_species_map",
   "except", "cleanup", "write_output_json", "write_dump", "done", "crashed"}

TypeOK ==
  /\ pc \in [Runs -> Positions]
  /\ pipe \in {"amr", "mlst"}
  /\ clock \in 0..MaxClock

\* ---------------------------------------------------------------- the claims
Done(r) == pc[r] = "done"
Published(r) == published[r].kind = "catalog"
Row(r) == published[r].rows[1]
SentinelValue == <<"amrfinderplus_", "unknown", "_", "unknown">>

AmrStages == {"read_input_json", "run_amrfinder_update", "read_versions", "copy_database"}
AcquireTransformStages ==
  {"run_amrfinder_update", "copy_database",
   "download_pubmlst_databases", "make_blast_database"}

\* C1 (as claimed): every run that ends has executed write_output_json exactly
\* once, and what it wrote holds exactly one entry under the table key.
C1_WriteExactlyOnce ==
  \A r \in Runs :
    Done(r) => /\ nwrites[r] = 1
               /\ Published(r)
               /\ published[r].table = Table
               /\ Len(published[r].rows) = 1

\* C2 (as claimed): an AMRFinderPlus run in which one of the four stages failed
\* ends with the catalog written, value amrfinderplus_unknown_unknown and
\* db_version unknown.
C2_FailedAmrPublishesSentinel ==
  \A r \in Runs :
    (pipe = "amr" /\ Done(r) /\ failure[r].stage \in AmrStages)
      => /\ Published(r)
         /\ Row(r).value = SentinelValue
         /\ Row(r).db_version = <<"unknown">>

\* C3 (as claimed): in both pipelines the entry published by a run whose
\* acquisition or transform failed has a value containing "unknown".
C3_FailedEntryCarriesSentinel ==
  \A r \in Runs :
    (Done(r) /\ Published(r) /\ failure[r].stage \in AcquireTransformStages)
      => Contains(Row(r).value, "unknown")

\* C4 (as claimed): whenever the AMRFinderPlus cleanup() is entered, it raises
\* nothing to run(): the run's next stage is write_output_json (unless the host
\* goes down).
C4_CleanupNeverRaises ==
  [][\A r \in Runs :
       (pipe = "amr" /\ pc[r] = "cleanup" /\ pc'[r] # "cleanup")
         => pc'[r] \in {"write_output_json", "crashed"}]_vars

\* C5 (as claimed): when a run ends, no downloaded data remains in its working
\* location: <extra_files_path>/tmp_download (AMRFinderPlus), the pubmlst
\* directory of its working directory (MLST).
WorkingAreaRemoved(r) ==
  IF pipe = "amr"
  THEN output_dir[r] # NoDir => DOMAIN tmpDir[output_dir[r]].tree = {}
  ELSE DOMAIN srcPubmlst[cwd[r]].tree = {}

C5_WorkingAreaRemovedAtEnd ==
  [][\A r \in Runs : (~Done(r) /\ Done(r)') => WorkingAreaRemoved(r)']_vars

\* C6 (as claimed), for the runs that completed with the catalog written: a run
\* exits 0 or 1; it exits 1 only in the MLST pipeline and only when the scheme
\* downloader could not be started; AMRFinderPlus exits 0.
CouldNotStart(r) ==
  failure[r] = [stage |-> "download_pubmlst_databases", exc |-> "FileNotFoundError"]
ReturnedNonzero(r) ==
  failure[r] = [stage |-> "download_pubmlst_databases", exc |-> "CalledProcessError"]

C6_ExitOneOnlyWhenNotStarted ==
  \A r \in Runs :
    (Done(r) /\ nwrites[r] = 1)
      => /\ exit_code[r] \in {0, 1}
         /\ exit_code[r] = 1 => (pipe = "mlst" /\ CouldNotStart(r))
         /\ pipe = "amr" => exit_code[r] = 0

\* C6 (amended): a run exits 0 or 1.  An MLST run exits 1 exactly when the scheme
\* downloader ran and returned a nonzero status (when it could not be started
\* the run exits 0).  An AMRFinderPlus run exits 0 whenever it wrote the
\* catalog; it exits 1 exactly when read_input_json failed and cleanup raised
\* on output_dir None, and then it wrote nothing.
C6_ExitPolicy ==
  \A r \in Runs :
    Done(r) =>
      /\ exit_code[r] \in {0, 1}
      /\ pipe = "mlst" => (exit_code[r] = 1 <=> ReturnedNonzero(r))
      /\ pipe = "amr" =>
           (exit_code[r] = 1 <=> (/\ failure[r].stage = "read_input_json"
                                  /\ output_dir[r] = NoDir
                                  /\ nwrites[r] = 0))

\* an MLST run exited 1 after the downloader returned nonzero, and another exited
\* 0 although the downloader could not be started
C6_Witness ==
  \E r1, r2 \in Runs :
    /\ pipe = "mlst" /\ Done(r1) /\ Done(r2)
    /\ ReturnedNonzero(r1) /\ exit_code[r1] = 1
    /\ CouldNotStart(r2) /\ exit_code[r2] = 0

\* C7 (as claimed): at every point, a crash included, no job JSON file is empty
\* or half-written: it holds its previous document or the new entry.
C7_CatalogNeverTorn == \A p \in JsonPaths : jsonFile[p].kind # "empty"

\* C8 (as claimed): two distinct runs of a pipeline publish different values.
C8_ValuesUnique ==
  \A r1, r2 \in Runs :
    (r1 # r2 /\ Published(r1) /\ Published(r2)) => Row(r1).value # Row(r2).value

SameSecond(r1, r2) == born[r1] \div TicksPerSecond = born[r2] \div TicksPerSecond

\* C8 (amended): the value is determined by the descriptor alone and is not
\* unique.  Two AMRFinderPlus runs with the same version and format publish the
\* same value, and every failed one publishes amrfinderplus_unknown_unknown.
\* Two MLST runs publish the same value exactly when their managers were
\* constructed within the same second.
C8_ValueFromDescriptor ==
  \A r1, r2 \in Runs :
    (r1 # r2 /\ Published(r1) /\ Published(r2)) =>
      /\ pipe = "amr" =>
           /\ (version[r1] = version[r2] /\ dbformat[r1] = dbformat[r2])
                => Row(r1).value = Row(r2).value
           /\ failure[r1].stage # "none" => Row(r1).value = SentinelValue
      /\ pipe = "mlst" => (Row(r1).value = Row(r2).value <=> SameSecond(r1, r2))

\* two MLST runs constructed at different ticks of the same second published the
\* same value
C8_Witness ==
  \E r1, r2 \in Runs :
    /\ pipe = "mlst" /\ r1 # r2 /\ Published(r1) /\ Published(r2)
    /\ born[r1] # born[r2]
    /\ Row(r1).value = Row(r2).value

\* the identifier lines, as the merge would write them, of the records of a file
\* whose body (the lines up to the next identifier line) contains the marker
ExcludedIds(scheme, lines) ==
  {<<">", scheme, ".">> \o Tail(lines[i]) :
     i \in {i \in 1..Len(lines) :
              /\ StartsWith(lines[i], ">")
              /\ \E j \in (i + 1)..Len(lines) :
                   /\ Contains(lines[j], NotALocus)
                   /\ \A k \in (i + 1)..j : ~StartsWith(lines[k], ">")}}

MergeCompleted(r) ==
  /\ pipe = "mlst" /\ failure[r].stage = "none"
  /\ pc[r] \in {"download_scheme_species_map", "write_output_json", "write_dump", "done"}

\* C9 (as claimed): once a run's merge has completed, the identifier line of a
\* record whose body contains "not a locus" is not in mlst.fa.
C9_MarkedRecordAbsent ==
  \A r \in Runs :
    MergeCompleted(r) =>
      \A s \in DOMAIN merged[r].tree :
        \A f \in DOMAIN merged[r].tree[s].tree :
          EndsWithTfa(f) =>
            \A id \in ExcludedIds(s, merged[r].tree[s].tree[f]) :
              \A i \in 1..Len(wrote[r].lines) : wrote[r].lines[i] # id

\* C10 (as claimed): a second merge of the same downloaded schemes into the same
\* output directory leaves mlst.fa as the first merge left it.
C10_MergeIdempotent ==
  \A r1, r2 \in Runs :
    (/\ r1 < r2 /\ MergeCompleted(r1) /\ MergeCompleted(r2)
     /\ output_dir[r1] = output_dir[r2]
     /\ merged[r1] = merged[r2])
      => wrote[r2] = wrote[r1]

\* C11 (as claimed): a nonzero status of makeblastdb is fatal to the MLST
\* pipeline: a run in which makeblastdb returned nonzero does not end with exit
\* code 0.
IndexingFailed(r) ==
  failure[r] = [stage |-> "make_blast_database", exc |-> "CalledProcessError"]

C11_IndexFailureIsFatal ==
  \A r \in Runs :
    (pipe = "mlst" /\ Done(r) /\ IndexingFailed(r)) => exit_code[r] # 0

\* C12 (as claimed): in the AMRFinderPlus pipeline the copy runs before version
\* resolution, so a run whose version read failed has already copied the
\* artifact to permanent storage.
C12_CopyBeforeVersionRead ==
  \A r \in Runs :
    (pipe = "amr" /\ failure[r].stage = "read_versions") => copied[r] = "full"

\* the order of the statements of AmrFinderPlusDataManager.run(), as pairs of
\* consecutive positions
AmrFlow ==
  {<<"new", "read_input_json">>,
   <<"read_input_json", "run_amrfinder_update">>,
   <<"run_amrfinder_update", "read_versions">>,
   <<"read_versions", "copy_database">>,
   <<"copy_database", "cleanup">>,
   <<"read_input_json", "except">>, <<"run_amrfinder_update", "except">>,
   <<"read_versions", "except">>, <<"copy_database", "except">>,
   <<"except", "cleanup">>,
   <<"cleanup", "write_output_json">>,
   <<"write_output_json", "write_dump">>, <<"write_dump", "done">>}

\* C12 (amended): the AMRFinderPlus stages run in the order read_input_json,
\* run_amrfinder_update (acquire), read_versions (resolve version),
\* copy_database (transform), cleanup, write_output_json (publish); a failing
\* stage goes to the except clause, then cleanup, then publish.  Version
\* resolution precedes the copy: when read_versions fails nothing has been
\* copied in this run and the permanent directory is left as it was, and the
\* copy starts with both values read.  The one path that skips publish is
\* cleanup raising on output_dir None after a failed read_input_json (C4).
C12_StageOrder ==
  [][\A r \in Runs :
       (pipe = "amr" /\ pc'[r] # pc[r] /\ pc'[r] # "crashed") =>
         /\ \/ <<pc[r], pc'[r]>> \in AmrFlow
            \/ /\ pc[r] = "cleanup" /\ pc'[r] = "done"
               /\ output_dir[r] = NoDir /\ failure[r].stage = "read_input_json"
         /\ pc'[r] = "except" => failure'[r].stage = pc[r]
         /\ (pc[r] = "read_versions" /\ pc'[r] = "except") =>
              (copied'[r] = "no" /\ finalDir' = finalDir)
         /\ pc'[r] = "copy_database" =>
              (copied[r] = "no" /\ version'[r] # None /\ dbformat'[r] # None)
    ]_vars

\* a run whose version read failed has published, and it copied nothing
C12_Witness ==
  \E r \in Runs :
    /\ pipe = "amr" /\ Done(r) /\ Published(r)
    /\ failure[r].stage = "read_versions" /\ copied[r] = "no"

\* ------------------------------------------------- the merge on wider inputs
\* lines a .tfa file may hold: identifier lines, sequence lines, lines with the
\* marker, a line with '>' after a blank, an identifier with a second '>', and
\* a last line without a newline
MergeLines ==
  {<<">", "adk_1", "\n">>, <<"ACGT", "\n">>,
   <<">", "adk_2", " ", "not a locus", "\n">>,
   <<" ", ">", "adk_3", "\n">>,
   <<">", ">", "adk_4", "\n">>,
   <<">", "adk_5">>}
MergeFiles == UNION {[1..n -> MergeLines] : n \in 0..MaxLines}
MergeTrees ==
  {s :> Scheme(<<"adk", ".tfa">> :> f1 @@ <<"arcC", ".tfa">> :> f2
               @@ <<"ecoli", ".txt">> :> << <<">", "ST", "\n">> >>)
   @@ "README" :> PlainFile :
     s \in {"ecoli", "saureus"}, f1 \in MergeFiles, f2 \in MergeFiles}

\* run 1 of the MLST pipeline is about to merge what the downloader left in the
\* working directory; mlst.fa is absent or holds the lines of an earlier run
MergeInit ==
  /\ pipe = "mlst"
  /\ clock = 0
  /\ pc = [r \in Runs |-> IF r = 1 THEN "make_blast_database" ELSE "new"]
  /\ json_path = [r \in Runs |-> IF r = 1 THEN 1 ELSE 0]
  /\ extra_files_path = [r \in Runs |-> IF r = 1 THEN 1 ELSE NoDir]
  /\ output_dir = [r \in Runs |-> IF r = 1 THEN 1 ELSE NoDir]
  /\ version = [r \in Runs |-> None]
  /\ dbformat = [r \in Runs |-> None]
  /\ timestamp = [r \in Runs |-> IF r = 1 THEN Timestamp(0) ELSE <<>>]
  /\ pending = [r \in Runs |-> "none"]
  /\ exit_code = [r \in Runs |-> -1]
  /\ nwrites = [r \in Runs |-> 0]
  /\ published = [r \in Runs |-> NoDoc]
  /\ jsonFile = [p \in JsonPaths |-> InputJson(1)]
  /\ tmpDir = [d \in Dirs |-> AbsentDir]
  /\ finalDir = [d \in Dirs |-> AbsentDir]
  /\ cwd = [r \in Runs |-> IF r = 1 THEN 1 ELSE 0]
  /\ \E t \in MergeTrees :
       /\ srcPubmlst = [c \in Cwds |-> IF c = 1 THEN DirOf(t) ELSE AbsentDir]
       /\ downloaded = [r \in Runs |-> IF r = 1 THEN DirOf(t) ELSE AbsentDir]
  /\ dstPubmlst = [d \in Dirs |-> AbsentDir]
  /\ \E old \in {NoFile, TextFile(<< <<">", "ecoli", ".", "adk_1", "\n">> >>)} :
       blastFile = [d \in Dirs |-> IF d = 1 THEN old ELSE NoFile]
  /\ blastDb = [d \in Dirs |-> NoFile]
  /\ mapFile = [d \in Dirs |-> NoFile]
  /\ failure = [r \in Runs |-> NoFailure]
  /\ born = [r \in Runs |-> 0]
  /\ merged = [r \in Runs |-> AbsentDir]
  /\ wrote = [r \in Runs |-> NoFile]
  /\ copied = [r \in Runs |-> "no"]
  /\ fetched = [r \in Runs |-> "none"]

MergeNext == \E r \in Runs : make_blast_database(r)
MergeSpec == MergeInit /\ [][MergeNext]_vars

\* what the claim says a .tfa file contributes to the combined file: its lines
\* without the marker, in input order, each identifier line as '>', the scheme,
\* '.', and the line's text after the leading '>'; the other lines as they are
Rewritten(scheme, lines) ==
  LET kept == SelectSeq(lines, LAMBDA l : \A i \in 1..Len(l) : l[i] # NotALocus)
  IN [i \in 1..Len(kept) |->
        IF kept[i][1] = ">"
        THEN <<">", scheme, ".">> \o SubSeq(kept[i], 2, Len(kept[i]))
        ELSE kept[i]]

\* the (scheme, file) pairs of the .tfa files in the scheme directories of a tree
TfaFiles(tree) ==
  UNION {{<<s, f>> : f \in {f \in DOMAIN tree[s].tree : f[2] = ".tfa"}} :
           s \in {s \in DOMAIN tree : tree[s].isdir}}

RECURSIVE Flatten(_)
Flatten(ss) == IF ss = <<>> THEN <<>> ELSE Head(ss) \o Flatten(Tail(ss))

\* C13: whenever the merge runs to its end, the lines it appends to mlst.fa are,
\* file by file in some order of the .tfa files, the lines of each file in input
\* order with every identifier line rewritten to '>' + scheme + '.' + the text
\* after its leading '>', and every other written line copied verbatim.
C13_IdentifierRewriting ==
  [][\A r \in Runs :
       (/\ pc[r] = "make_blast_database"
        /\ \/ pc'[r] = "download_scheme_species_map"
           \/ failure'[r] = [stage |-> "make_blast_database",
                             exc |-> "CalledProcessError"])
       => LET d == output_dir[r]
              tree == srcPubmlst[cwd[r]].tree
          IN \E ord \in Perms(TfaFiles(tree)) :
               blastFile'[d].lines =
                 blastFile[d].lines
                   \o Flatten([i \in DOMAIN ord |->
                                 Rewritten(ord[i][1], tree[ord[i][1]].tree[ord[i][2]])])
    ]_vars

\* a merge has written a rewritten identifier line whose text holds a second
\* '>', after an identifier line dropped for the marker, and a verbatim line
C13_Witness ==
  \E r \in Runs :
    /\ MergeCompleted(r)
    /\ "ecoli" \in DOMAIN merged[r].tree
    /\ merged[r].tree["ecoli"].tree[<<"adk", ".tfa">>] # <<>>
    /\ Contains(merged[r].tree["ecoli"].tree[<<"adk", ".tfa">>][1], NotALocus)
    /\ \E i \in 1..Len(wrote[r].lines) :
         wrote[r].lines[i] = <<">", "ecoli", ".", ">", "adk_4", "\n">>
    /\ \E i \in 1..Len(wrote[r].lines) : wrote[r].lines[i] = <<" ", ">", "adk_3", "\n">>

\* C14 (as claimed): right after copy_database succeeds, the permanent directory
\* holds exactly the files of the acquired 'latest' subtree: nothing left there
\* by an earlier run survives.
C14_CopyReplacesDestination ==
  \A r \in Runs :
    (pipe = "amr" /\ pc[r] = "cleanup" /\ copied[r] = "full")
      => finalDir[extra_files_path[r]] = downloaded[r]

\* the first line of a file without its surrounding whitespace: the part of the
\* line from its first to its last character that is not whitespace
FirstLineStripped(file) ==
  IF file = <<>> THEN <<>>
  ELSE LET line == file[1]
           solid == {i \in 1..Len(line) : line[i] \notin {" ", "\n"}}
       IN IF solid = {} THEN <<>>
          ELSE SubSeq(line, CHOOSE i \in solid : \A j \in solid : i <= j,
                            CHOOSE i \in solid : \A j \in solid : i >= j)

\* C15: once read_versions has returned, version and dbformat are the first
\* lines of latest/version.txt and latest/database_format_version.txt without
\* surrounding whitespace ("3.12\n" and "2024-01-01.1\n" give 3.12 and
\* 2024-01-01.1); a run whose read_versions failed, either file missing, ends
\* with the catalog written once, the sentinel entry in it, and exit code 0.
C15_VersionResolution ==
  \A r \in Runs :
    pipe = "amr" =>
      /\ pc[r] = "copy_database" =>
           /\ version[r] = FirstLineStripped(downloaded[r].tree["version.txt"])
           /\ dbformat[r] =
                FirstLineStripped(downloaded[r].tree["database_format_version.txt"])
           /\ downloaded[r].tree = LatestA =>
                (version[r] = <<"3.12">> /\ dbformat[r] = <<"2024-01-01.1">>)
      /\ failure[r].stage = "read_versions" =>
           {"version.txt", "database_format_version.txt"}
             \ DOMAIN downloaded[r].tree # {}
      /\ (Done(r) /\ failure[r].stage = "read_versions") =>
           /\ nwrites[r] = 1 /\ Published(r) /\ exit_code[r] = 0
           /\ Row(r).value = SentinelValue
           /\ Row(r).db_version = unknown

\* one run resolved " 4.0 \n" to 4.0 and published it, another found a metadata
\* file missing and published the sentinel
C15_Witness ==
  \E r1, r2 \in Runs :
    /\ pipe = "amr" /\ Done(r1) /\ Done(r2) /\ Published(r1)
    /\ failure[r1].stage = "none" /\ downloaded[r1].tree = LatestB
    /\ Row(r1).value = <<"amrfinderplus_", "4.0", "_", "2024-01-01.1">>
    /\ failure[r2].stage = "read_versions" /\ Row(r2).value = SentinelValue

\* C16: a failed fetch of scheme_species_map.tab raises nothing to run(): the
\* stage after it is the catalog write, with no exception recorded or in
\* flight; and a run that reached the fetch ends with exit code 0 and the entry
\* of its timestamp, whichever way the fetch ended.
C16_FetchFailureSkipped ==
  \A r \in Runs :
    (pipe = "mlst" /\ fetched[r] # "none") =>
      /\ pc[r] \in {"write_output_json", "write_dump", "done", "crashed"}
      /\ failure[r] = NoFailure /\ pending[r] = "none"
      /\ Done(r) =>
           /\ exit_code[r] = 0 /\ nwrites[r] = 1 /\ Published(r)
           /\ published[r].table = "mlst"
           /\ Row(r) =
                [value |-> <<"mlst_database_", ToString(born[r] \div TicksPerSecond)>>,
                 name |-> <<"mlst_database_", ToString(born[r] \div TicksPerSecond)>>,
                 path |-> <<"mlst-db">>]

\* one run fetched the mapping file, another could not open the URL, and both
\* ended with exit code 0 and an entry published
C16_Witness ==
  \E r1, r2 \in Runs :
    /\ pipe = "mlst" /\ Done(r1) /\ Done(r2)
    /\ fetched[r1] = "ok" /\ fetched[r2] = "urlopen fails"
    /\ ~mapFile[output_dir[r2]].exists
    /\ exit_code[r1] = 0 /\ exit_code[r2] = 0 /\ Published(r1) /\ Published(r2)

\* ------------------------------------------------------- interleaved runs
\* two jobs of one pipeline run at the same time, each started with its own job
\* JSON file, and each file names its own extra_files_path
ConcInit ==
  /\ Init
  /\ jsonFile = [p \in JsonPaths |-> InputJson(p)]

DistinctJsonPaths ==
  \A r1, r2 \in Runs :
    (r1 # r2 /\ json_path[r1] # 0) => json_path[r1] # json_path[r2]

ConcNext ==
  \/ \E r \in Runs : Amr_init(r) /\ DistinctJsonPaths'
  \/ \E r \in Runs : Amr_read_input_json(r)
  \/ \E r \in Runs : run_amrfinder_update(r)
  \/ \E r \in Runs : read_versions(r)
  \/ \E r \in Runs : copy_database(r)
  \/ \E r \in Runs : Amr_except(r)
  \/ \E r \in Runs : cleanup(r)
  \/ \E r \in Runs : Mlst_init(r) /\ DistinctJsonPaths'
  \/ \E r \in Runs : Mlst_read_input_json(r)
  \/ \E r \in Runs : download_pubmlst_databases(r)
  \/ \E r \in Runs : make_blast_database(r)
  \/ \E r \in Runs : download_scheme_species_map(r)
  \/ \E r \in Runs : Mlst_except(r)
  \/ \E r \in Runs : write_open(r)
  \/ \E r \in Runs : write_dump(r)

SpecConc == ConcInit /\ [][ConcNext]_vars

\* C17 (as claimed): two interleaved runs started with different JSON paths and
\* different extra_files_path values use disjoint working areas: when a run is
\* about to read its working area (read_versions, copy_database; the move and
\* merge of make_blast_database), it holds what that run's acquisition left.
C17_DisjointWorkingAreas ==
  \A r \in Runs :
    /\ (pipe = "amr" /\ pc[r] \in {"read_versions", "copy_database"})
         => tmpDir[output_dir[r]] = downloaded[r]
    /\ (pipe = "mlst" /\ pc[r] = "make_blast_database")
         => srcPubmlst[cwd[r]] = downloaded[r]

BeforeCopyStages == {"read_input_json", "run_amrfinder_update", "read_versions"}

\* C18: in the AMRFinderPlus pipeline, a run that published an entry other than
\* the sentinel completed copy_database, with no stage failed; the permanent
\* directory changes only in a copy_database step of a run whose acquisition and
\* both version reads succeeded; a run that failed before copy_database copied
\* nothing, and the step in which it failed leaves the permanent directory as
\* it was.
C18_PublishedVersionImpliesCopy ==
  [][pipe = "amr" =>
       /\ \A r \in Runs :
            /\ (Published(r) /\ Row(r).value # SentinelValue)'
                 => (copied[r] = "full" /\ failure[r] = NoFailure)'
            /\ (failure[r].stage \in BeforeCopyStages)' => (copied[r] = "no")'
            /\ (pc[r] \in BeforeCopyStages /\ pc'[r] = "except")
                 => finalDir' = finalDir
       /\ finalDir' # finalDir =>
            \E r \in Runs :
              /\ pc[r] = "copy_database" /\ copied'[r] # "no"
              /\ failure[r] = NoFailure
              /\ downloaded[r].exists
              /\ {"version.txt", "database_format_version.txt"}
                   \subseteq DOMAIN downloaded[r].tree
              /\ version[r] # None /\ dbformat[r] # None
    ]_vars

\* one run published a version it read after a complete copy; another failed in
\* read_versions and the permanent directory of its extra_files_path is absent
C18_Witness ==
  \E r1, r2 \in Runs :
    /\ pipe = "amr" /\ Done(r1) /\ Done(r2) /\ Published(r1)
    /\ Row(r1).value = <<"amrfinderplus_", "3.12", "_", "2024-01-01.1">>
    /\ copied[r1] = "full"
    /\ failure[r2].stage = "read_versions" /\ copied[r2] = "no"
    /\ ~finalDir[extra_files_path[r2]].exists

\* C19: when write_output_json runs in the AMRFinderPlus pipeline, version and
\* dbformat are not None, and they are either the two values read in this run
\* from the metadata files of what it acquired (no stage failed) or both
\* "unknown" (a stage failed); the value written never holds the text None.
C19_VersionPairAtWrite ==
  \A r \in Runs :
    (pipe = "amr" /\ pc[r] \in {"write_output_json", "write_dump"}) =>
      /\ version[r] # None /\ dbformat[r] # None
      /\ ~Contains(AmrValue(version[r], dbformat[r]), "None")
      /\ \/ /\ failure[r] = NoFailure
            /\ {"version.txt", "database_format_version.txt"}
                 \subseteq DOMAIN downloaded[r].tree
            /\ version[r] = FirstLineStripped(downloaded[r].tree["version.txt"])
            /\ dbformat[r] =
                 FirstLineStripped(downloaded[r].tree["database_format_version.txt"])
         \/ /\ failure[r] # NoFailure
            /\ version[r] = unknown /\ dbformat[r] = unknown

\* a run is about to write after read_versions read version.txt and then found
\* the format file missing: both fields are "unknown"
C19_Witness ==
  \E r \in Runs :
    /\ pipe = "amr" /\ pc[r] = "write_output_json"
    /\ failure[r] = [stage |-> "read_versions", exc |-> "FileNotFoundError"]
    /\ downloaded[r].tree = LatestNoFormat
    /\ version[r] = unknown /\ dbformat[r] = unknown
====
